---- MODULE Spec2Model ----
(***************************************************************************)
(* Model of the rule table of droute (src/droute/src/router/table.rs):     *)
(* Table::new (tag map construction + depth-first validation), used() and  *)
(* the per-query routing loop Table::route.                                *)
(***************************************************************************)
EXTENDS Integers, Sequences, FiniteSets, TLC

VARIABLES rules,    \* the Vec<Rule> handed to Table::new
          built,    \* the outcome of Table::new: Ok(Table) or a TableError
          op,       \* the routing operation (Table::route) in flight, if any
          op2,      \* a second routing operation on the same table
          dom       \* a Domain matcher: its sources, Domain::new, a match

vars == <<rules, built, op, op2, dom>>

----------------------------------------------------------------------------
(* Bounds of the explored inputs *)

\* Longest rule list handed to Table::new
MaxRules == 2

\* Most rule evaluations of one routing operation that are explored
MaxSteps == 4

Tags == {"start", "a", "b", "end"}

NextTags == {"start", "a", "b", "end"}

Replies == {"r1", "r2"}

QueryNames == {"example.com", "example.org"}

\* A query message is represented by the names of its questions.
Queries == {<<>>} \cup {<<n>> : n \in QueryNames}

----------------------------------------------------------------------------
(* Actions, matchers, rules *)

Skip == <<"Skip">>

Query(u) == <<"Query", u>>

\* Action::used_upstreams
ActionUsed(a) == IF a[1] = "Query" THEN {a[2]} ELSE {}

\* The (matcher, on-match action, no-match action) combinations explored.
Behaviours ==
    { <<"Any", Query("mock"), Skip>>,
      <<"Domain", Skip, Query("another_mock")>> }

Rule(t, m, on, no) == [tag |-> t, matcher |-> m, on_match |-> on, no_match |-> no]

Rules ==
    { Rule(t, b[1], <<b[2], n1>>, <<b[3], n2>>) :
        t \in Tags, b \in Behaviours, n1 \in NextTags, n2 \in NextTags }

on_match_next(r) == r.on_match[2]

no_match_next(r) == r.no_match[2]

\* Rule::used_upstreams: the names declared by both actions of the rule
used_upstreams(r) == ActionUsed(r.on_match[1]) \cup ActionUsed(r.no_match[1])

\* The names matched by the Domain matcher of the explored rules.
DomainList == {"example.com"}

\* Matcher::matches on the questions of the query
Matches(m, query) == IF m = "Any" THEN TRUE ELSE query[1] \in DomainList

----------------------------------------------------------------------------
(* Table::new *)

NoTable == [x \in {} |-> x]

Ok(t, u) == [kind |-> "Ok", tag |-> "", rules |-> t, used |-> u]

Err(k, t) == [kind |-> k, tag |-> t, rules |-> NoTable, used |-> {}]

\* The insertion loop without the lookup: a later rule replaces an earlier one
RECURSIVE InsertAllOverwrite(_, _, _)
InsertAllOverwrite(rs, i, table) ==
    IF i > Len(rs) THEN Ok(table, {})
    ELSE InsertAllOverwrite(rs, i + 1,
                   [t \in DOMAIN table \cup {rs[i].tag} |->
                       IF t = rs[i].tag THEN rs[i] ELSE table[t]])

\* The insertion loop of Table::new: Err(MultipleDef) at the first rule whose
\* tag is already a key, the finished map otherwise.
RECURSIVE InsertAll(_, _, _)
InsertAll(rs, i, table) ==
    IF i > Len(rs) THEN Ok(table, {})
    ELSE IF rs[i].tag \in DOMAIN table THEN Err("MultipleDef", rs[i].tag)
    ELSE InsertAll(rs, i + 1,
                   [t \in DOMAIN table \cup {rs[i].tag} |->
                       IF t = rs[i].tag THEN rs[i] ELSE table[t]])

\* Table::traverse.  st = [l, used, err]: the two &mut sets and the Result.
NoErr == <<>>

\* traverse with the visited set un-marked on return (a set per path)
RECURSIVE traversePerPath(_, _, _)
traversePerPath(table, st, tag) ==
    IF tag \in DOMAIN table
    THEN IF tag \in st.l
         THEN [st EXCEPT !.err = <<"RuleRecursion", tag>>]
         ELSE LET r  == table[tag]
                  s0 == [st EXCEPT !.l = @ \cup {tag}]
                  s1 == IF on_match_next(r) # "end"
                        THEN traversePerPath(table, s0, on_match_next(r))
                        ELSE s0
                  s2 == IF s1.err # NoErr THEN s1
                        ELSE IF no_match_next(r) # "end"
                        THEN traversePerPath(table, s1, no_match_next(r))
                        ELSE s1
              IN IF s2.err # NoErr THEN s2
                 ELSE [s2 EXCEPT !.used = @ \cup used_upstreams(r), !.l = st.l]
    ELSE [st EXCEPT !.err = <<"UndefinedTag", tag>>]

\* traverse that follows the on-match next-tag only
RECURSIVE traverseOnMatchOnly(_, _, _)
traverseOnMatchOnly(table, st, tag) ==
    IF tag \in DOMAIN table
    THEN IF tag \in st.l
         THEN [st EXCEPT !.err = <<"RuleRecursion", tag>>]
         ELSE LET r  == table[tag]
                  s0 == [st EXCEPT !.l = @ \cup {tag}]
                  s1 == IF on_match_next(r) # "end"
                        THEN traverseOnMatchOnly(table, s0, on_match_next(r))
                        ELSE s0
              IN IF s1.err # NoErr THEN s1
                 ELSE [s1 EXCEPT !.used = @ \cup used_upstreams(r)]
    ELSE [st EXCEPT !.err = <<"UndefinedTag", tag>>]

\* traverse that reports a missing rule for "start" only
RECURSIVE traverseStartOnly(_, _, _)
traverseStartOnly(table, st, tag) ==
    IF tag \in DOMAIN table
    THEN IF tag \in st.l
         THEN [st EXCEPT !.err = <<"RuleRecursion", tag>>]
         ELSE LET r  == table[tag]
                  s0 == [st EXCEPT !.l = @ \cup {tag}]
                  s1 == IF on_match_next(r) # "end"
                        THEN traverseStartOnly(table, s0, on_match_next(r))
                        ELSE s0
                  s2 == IF s1.err # NoErr THEN s1
                        ELSE IF no_match_next(r) # "end"
                        THEN traverseStartOnly(table, s1, no_match_next(r))
                        ELSE s1
              IN IF s2.err # NoErr THEN s2
                 ELSE [s2 EXCEPT !.used = @ \cup used_upstreams(r)]
    ELSE IF tag = "start" THEN [st EXCEPT !.err = <<"UndefinedTag", tag>>]
    ELSE st

RECURSIVE traverse(_, _, _)
traverse(table, st, tag) ==
    IF tag \in DOMAIN table
    THEN IF tag \in st.l
         THEN [st EXCEPT !.err = <<"RuleRecursion", tag>>]
         ELSE LET r  == table[tag]
                  s0 == [st EXCEPT !.l = @ \cup {tag}]
                  s1 == IF on_match_next(r) # "end"
                        THEN traverse(table, s0, on_match_next(r))
                        ELSE s0
                  s2 == IF s1.err # NoErr THEN s1
                        ELSE IF no_match_next(r) # "end"
                        THEN traverse(table, s1, no_match_next(r))
                        ELSE s1
              IN IF s2.err # NoErr THEN s2
                 ELSE [s2 EXCEPT !.used = @ \cup used_upstreams(r)]
    ELSE [st EXCEPT !.err = <<"UndefinedTag", tag>>]

\* Table::new collecting the names of every rule of the map, reachable or not
TableNewAllUsed(rs) ==
    LET ins == InsertAll(rs, 1, NoTable)
    IN IF ins.kind # "Ok" THEN ins
       ELSE LET tr == traverse(ins.rules, [l |-> {}, used |-> {}, err |-> NoErr], "start")
            IN IF tr.err # NoErr THEN Err(tr.err[1], tr.err[2])
               ELSE Ok(ins.rules, UNION { used_upstreams(ins.rules[t]) : t \in DOMAIN ins.rules })

\* Table::new validating from the first rule of the list instead of "start"
TableNewFromFirst(rs) ==
    LET ins == InsertAll(rs, 1, NoTable)
    IN IF ins.kind # "Ok" THEN ins
       ELSE LET tr == traverse(ins.rules, [l |-> {}, used |-> {}, err |-> NoErr],
                               IF Len(rs) > 0 THEN rs[1].tag ELSE "start")
            IN IF tr.err # NoErr THEN Err(tr.err[1], tr.err[2])
               ELSE Ok(ins.rules, tr.used)

TableNew(rs) ==
    LET ins == InsertAll(rs, 1, NoTable)
    IN IF ins.kind # "Ok" THEN ins
       ELSE LET tr == traverse(ins.rules, [l |-> {}, used |-> {}, err |-> NoErr], "start")
            IN IF tr.err # NoErr THEN Err(tr.err[1], tr.err[2])
               ELSE Ok(ins.rules, tr.used)

\* Table::used
used(t) == t.used

----------------------------------------------------------------------------
(* Rule::route and Table::route *)

\* Message::new(): the empty response a State starts with
EmptyMsg == "empty"

NoMsg == "none"

UpErr == "error"

\* Rule::route up to the execution of the action: the branch the matcher picks
RuleBranch(r, query, resp) ==
    IF Matches(r.matcher, query) THEN r.on_match ELSE r.no_match

NoResult == [kind |-> "None", resp |-> NoMsg]

Idle == [pc |-> "idle", tag |-> "", query |-> <<>>, resp |-> NoMsg,
         path |-> <<>>, sent |-> <<>>, replies |-> <<>>, pending |-> "",
         result |-> NoResult]

\* A routing operation that has ended: its State is dropped with it.
Finished(o, k, m) ==
    [o EXCEPT !.pc = "done", !.pending = "", !.result = [kind |-> k, resp |-> m]]

\* route, line 126-132: the name of the first question (unwrap), the fresh State
RouteEnter(q) ==
    IF q = <<>>
    THEN Finished([Idle EXCEPT !.query = q], "PanicNoQuestion", NoMsg)
    ELSE [Idle EXCEPT !.pc = "run", !.tag = "start", !.query = q, !.resp = EmptyMsg]

\* The Err of the action dropped: the loop goes on with the next tag
RouteIgnoreErr(o) ==
    [o EXCEPT !.pc = "run", !.tag = o.pending, !.pending = "",
              !.replies = Append(@, UpErr)]

\* route, line 139: `?` on the Err of Rule::route ends the operation with it
RouteFail(o) ==
    Finished([o EXCEPT !.replies = Append(@, UpErr)], "ActionError", NoMsg)

\* The answer of the upstream not stored in the State
RouteResumeNoStore(o, m) ==
    [o EXCEPT !.pc = "run", !.tag = o.pending, !.pending = "",
              !.replies = Append(@, m)]

\* The answer kept only when the State holds none yet: the first one wins
RouteResumeKeepFirst(o, m) ==
    [o EXCEPT !.pc = "run", !.resp = IF @ = EmptyMsg THEN m ELSE @,
              !.tag = o.pending, !.pending = "", !.replies = Append(@, m)]

\* route, line 134-139: the action's upstream answered, Rule::route returns the
\* next tag of the branch taken
RouteResume(o, m) ==
    [o EXCEPT !.pc = "run", !.resp = m, !.tag = o.pending, !.pending = "",
              !.replies = Append(@, m)]

\* route, line 134-138: rules.get(&tag).unwrap(), then Rule::route: the matcher,
\* then Skip (the next tag at once) or the dispatch of Query (await)
RouteIter(table, o) ==
    IF o.tag \notin DOMAIN table
    THEN Finished([o EXCEPT !.path = Append(@, o.tag)], "PanicNoRule", NoMsg)
    ELSE LET b == RuleBranch(table[o.tag], o.query, o.resp)
         IN IF b[1] = Skip
            THEN [o EXCEPT !.path = Append(@, o.tag), !.tag = b[2]]
            ELSE [o EXCEPT !.pc = "await",
                           !.path = Append(@, o.tag),
                           !.sent = Append(@, <<b[1][2], o.tag>>),
                           !.pending = b[2]]

----------------------------------------------------------------------------
(* State machine *)

NotBuilt == [kind |-> "None", tag |-> "", rules |-> NoTable, used |-> {}]

\* The rule lists of length n
RuleLists(n) == [1..n -> Rules]

\* No Domain matcher is being constructed
NoDomain == [pc |-> "none", srcs |-> <<>>, result |-> <<>>, probe |-> <<>>]

Init ==
    /\ \E n \in 0..MaxRules : rules \in RuleLists(n)
    /\ built = NotBuilt
    /\ op = Idle
    /\ op2 = Idle
    /\ dom = NoDomain

\* Table::new(rules)
New ==
    /\ built.kind = "None"
    /\ built' = TableNew(rules)
    /\ UNCHANGED <<rules, op, op2, dom>>

\* Table::route is called with query q on the table built
RouteStart ==
    /\ built.kind = "Ok"
    /\ op.pc = "idle"
    /\ \E q \in Queries : op' = RouteEnter(q)
    /\ UNCHANGED <<rules, built, op2, dom>>

\* One iteration of the while loop up to the action of the branch taken
RouteStep ==
    /\ op.pc = "run"
    /\ op.tag # "end"
    /\ Len(op.path) < MaxSteps
    /\ op' = RouteIter(built.rules, op)
    /\ UNCHANGED <<rules, built, op2, dom>>

\* The upstream answers the query of a Query action
UpstreamOk ==
    /\ op.pc = "await"
    /\ \E m \in Replies : op' = RouteResume(op, m)
    /\ UNCHANGED <<rules, built, op2, dom>>

\* The Query action fails with an ActionError
UpstreamErr ==
    /\ op.pc = "await"
    /\ op' = RouteFail(op)
    /\ UNCHANGED <<rules, built, op2, dom>>

\* The loop condition fails at "end": Ok(s.resp)
RouteReturn ==
    /\ op.pc = "run"
    /\ op.tag = "end"
    /\ op' = Finished(op, "Ok", op.resp)
    /\ UNCHANGED <<rules, built, op2, dom>>

Next ==
    \/ New
    \/ RouteStart
    \/ RouteStep
    \/ UpstreamOk
    \/ UpstreamErr
    \/ RouteReturn

Spec == Init /\ [][Next]_vars

\* Table::new alone, on longer lists of rules that differ in tag and on-match
\* next-tag only
MaxDupRules == 4

DupRules == { r \in Rules : r.matcher = "Any" /\ no_match_next(r) = "end" }

DupLists(n) == [1..n -> DupRules]

InitDup ==
    /\ \E n \in 0..MaxDupRules : rules \in DupLists(n)
    /\ built = NotBuilt
    /\ op = Idle
    /\ op2 = Idle
    /\ dom = NoDomain

NextDup == New

SpecDup == InitDup /\ [][NextDup]_vars

\* Table::new alone, on every order of the lists of up to MaxPermRules rules
MaxPermRules == 3

InitPerm ==
    /\ \E n \in 0..MaxPermRules : rules \in DupLists(n)
    /\ built = NotBuilt
    /\ op = Idle
    /\ op2 = Idle
    /\ dom = NoDomain

NextPerm == New

SpecPerm == InitPerm /\ [][NextPerm]_vars

----------------------------------------------------------------------------
(* The Domain matcher: Domain::new and Matcher::matches *)

\* Text is a sequence of characters.  A name of one letter per label stands
\* for a domain: e = example, c = com, o = org, w = www, ne = notexample.
RECURSIVE SplitBy(_, _)
SplitBy(s, sep) ==
    IF \A i \in 1..Len(s) : s[i] # sep THEN <<s>>
    ELSE LET k == CHOOSE i \in 1..Len(s) :
                      s[i] = sep /\ \A j \in 1..(i - 1) : s[j] # sep
         IN <<SubSeq(s, 1, k - 1)>> \o SplitBy(SubSeq(s, k + 1, Len(s)), sep)

RECURSIVE Trim(_)
Trim(s) ==
    IF s = <<>> THEN s
    ELSE IF s[1] = " " THEN Trim(Tail(s))
    ELSE IF s[Len(s)] = " " THEN Trim(SubSeq(s, 1, Len(s) - 1))
    ELSE s

Reverse(s) == [i \in 1..Len(s) |-> s[Len(s) + 1 - i]]

Lower(s) == [i \in 1..Len(s) |-> IF s[i] = "E" THEN "e" ELSE s[i]]

\* The domain patterns of a text: its lines, trimmed, without the blank lines
\* and the comment lines
Patterns(text) ==
    LET ls == SplitBy(text, "\n")
    IN { Trim(ls[i]) : i \in { j \in 1..Len(ls) :
                                 Trim(ls[j]) # <<>> /\ Trim(ls[j])[1] # "#" } }

\* The suffix trie: the label paths (top-level label first) that are nodes, and
\* those marked "domain present"
EmptyTrie == [nodes |-> {}, marks |-> {}]

\* DomainAlg::insert
TrieInsert(trie, line) ==
    LET rev == Reverse(SplitBy(line, "."))
    IN [nodes |-> trie.nodes \cup { SubSeq(rev, 1, k) : k \in 1..Len(rev) },
        marks |-> trie.marks \cup {rev}]

\* DomainAlg::insert_multi: one insertion per pattern of the text
RECURSIVE InsertSet(_, _)
InsertSet(trie, lines) ==
    IF lines = {} THEN trie
    ELSE LET l == CHOOSE x \in lines : TRUE
         IN InsertSet(TrieInsert(trie, l), lines \ {l})

insert_multi(trie, text) == InsertSet(trie, Patterns(text))

\* The walk of DomainAlg::matches from the top-level label inward
RECURSIVE TrieWalk(_, _, _)
TrieWalk(trie, rev, k) ==
    IF k > Len(rev) THEN FALSE
    ELSE IF SubSeq(rev, 1, k) \notin trie.nodes THEN FALSE
    ELSE IF SubSeq(rev, 1, k) \in trie.marks THEN TRUE
    ELSE TrieWalk(trie, rev, k + 1)

\* DomainAlg::matches: case-insensitive, one trailing root dot ignored
TrieMatches(trie, name) ==
    LET n == IF name # <<>> /\ name[Len(name)] = "."
             THEN SubSeq(name, 1, Len(name) - 1) ELSE name
    IN TrieWalk(trie, Reverse(SplitBy(Lower(n), ".")), 1)

\* A source that File::open rejects, and one whose read_to_string fails
Missing == [kind |-> "missing", text |-> <<>>]

Unreadable == [kind |-> "unreadable", text |-> <<>>]

File(t) == [kind |-> "text", text |-> t]

TextEC == File(<<"e", ".", "c">>)

TextAEC == File(<<"#", "z", "\n", "\n", " ", "a", ".", "e", ".", "c", " ", "\n">>)

TextECEO == File(<<"e", ".", "c", "\n", "e", ".", "o">>)

TextBad == File(<<"e", " ", "c", "\n", "w", ".", ".", "c">>)

Sources == {Missing, Unreadable, TextEC, TextAEC, TextECEO, TextBad}

\* Most sources of one Domain matcher
MaxSources == 2

\* Domain::new, line 28-33: the sources in order, `?` on open and on read
RECURSIVE LoadSources(_, _, _)
LoadSources(srcs, i, matcher) ==
    IF i > Len(srcs) THEN <<"Ok", matcher>>
    ELSE IF srcs[i].kind # "text" THEN <<"IOError">>
    ELSE LoadSources(srcs, i + 1, insert_multi(matcher, srcs[i].text))

\* Domain::new
DomainNew(srcs) == LoadSources(srcs, 1, EmptyTrie)

\* Name::to_utf8: the labels joined by dots, a root dot after a fully
\* qualified name
RECURSIVE Join(_)
Join(labels) ==
    IF labels = <<>> THEN <<>>
    ELSE IF Len(labels) = 1 THEN labels[1]
    ELSE labels[1] \o <<".">> \o Join(Tail(labels))

to_utf8(name) == IF name.fqdn THEN Join(name.labels) \o <<".">> ELSE Join(name.labels)

\* matches that looks at the last question instead of the first
DomainMatchesLast(matcher, queries) ==
    TrieMatches(matcher, to_utf8(queries[Len(queries)]))

\* impl Matcher for Domain: the name of the first question against the trie
DomainMatches(matcher, queries) == TrieMatches(matcher, to_utf8(queries[1]))

Name(ls) == [labels |-> ls, fqdn |-> FALSE]

NameEC == Name(<<(<<"e">>), (<<"c">>)>>)

ProbeNames ==
    { NameEC,
      Name(<<(<<"w">>), (<<"e">>), (<<"c">>)>>),
      Name(<<(<<"a">>), (<<"b">>), (<<"e">>), (<<"c">>)>>),
      Name(<<(<<"n", "e">>), (<<"c">>)>>),
      Name(<<(<<"e">>), (<<"o">>)>>),
      Name(<<(<<"E">>), (<<"c">>)>>),
      [labels |-> <<(<<"w">>), (<<"e">>), (<<"c">>)>>, fqdn |-> TRUE] }

\* Queries of one question, and of two whose second one is example.com
Probes == { <<n>> : n \in ProbeNames } \cup { <<n, NameEC>> : n \in ProbeNames }

InitDomain ==
    /\ rules = <<>>
    /\ built = NotBuilt
    /\ op = Idle
    /\ op2 = Idle
    /\ \E n \in 0..MaxSources :
          \E ss \in [1..n -> Sources] :
             dom = [pc |-> "new", srcs |-> ss, result |-> <<>>, probe |-> <<>>]

\* Domain::new(sources)
NewDomain ==
    /\ dom.pc = "new"
    /\ dom' = [dom EXCEPT !.pc = "built", !.result = DomainNew(dom.srcs)]
    /\ UNCHANGED <<rules, built, op, op2>>

\* matches(queries, _) on the matcher constructed
MatchDomain ==
    /\ dom.pc = "built"
    /\ dom.result[1] = "Ok"
    /\ \E q \in Probes :
          dom' = [dom EXCEPT !.pc = "matched",
                             !.probe = <<q, DomainMatches(dom.result[2], q)>>]
    /\ UNCHANGED <<rules, built, op, op2>>

NextDomain ==
    \/ NewDomain
    \/ MatchDomain

SpecDomain == InitDomain /\ [][NextDomain]_vars

\* One routing operation whose loop the executor keeps polling and whose
\* upstream calls all return, on tables of the tags "start", "a", "b"
MaxLiveRules == 2

LiveRules ==
    { r \in Rules : /\ r.tag \in {"start", "a", "b"}
                    /\ on_match_next(r) \in {"a", "b", "end"}
                    /\ no_match_next(r) \in {"a", "b", "end"} }

LiveLists(n) == [1..n -> LiveRules]

InitLive ==
    /\ \E n \in 0..MaxLiveRules : rules \in LiveLists(n)
    /\ built = NotBuilt
    /\ op = Idle
    /\ op2 = Idle
    /\ dom = NoDomain

\* Every upstream call returns, with an answer or with an error
UpstreamReturns == UpstreamOk \/ UpstreamErr

SpecLive ==
    /\ InitLive
    /\ [][Next]_vars
    /\ WF_vars(RouteStep)
    /\ WF_vars(RouteReturn)
    /\ WF_vars(UpstreamReturns)

----------------------------------------------------------------------------
(* Two routing operations on one shared table *)

\* The State shared by the routing operations instead of owned by each call
SharedState(new, other) ==
    <<new, IF other.pc \in {"run", "await"} /\ new.pc \in {"run", "await"}
           THEN [other EXCEPT !.resp = new.resp] ELSE other>>

\* route, line 127-130: `s` is a local of the call and the table is behind
\* &self: a step of one operation leaves the other operation as it is
OwnState(new, other) == <<new, other>>

Ops(i) == IF i = 1 THEN op ELSE op2

\* Operation i moves to the state new
Put(i, new) ==
    LET r == OwnState(new, Ops(3 - i))
    IN IF i = 1 THEN op' = r[1] /\ op2' = r[2]
                ELSE op2' = r[1] /\ op' = r[2]

ConcStart(i) ==
    /\ built.kind = "Ok"
    /\ Ops(i).pc = "idle"
    /\ \E q \in Queries : Put(i, RouteEnter(q))
    /\ UNCHANGED <<rules, built, dom>>

ConcStep(i) ==
    /\ Ops(i).pc = "run"
    /\ Ops(i).tag # "end"
    /\ Len(Ops(i).path) < MaxSteps
    /\ Put(i, RouteIter(built.rules, Ops(i)))
    /\ UNCHANGED <<rules, built, dom>>

ConcUpstreamOk(i) ==
    /\ Ops(i).pc = "await"
    /\ \E m \in Replies : Put(i, RouteResume(Ops(i), m))
    /\ UNCHANGED <<rules, built, dom>>

ConcUpstreamErr(i) ==
    /\ Ops(i).pc = "await"
    /\ Put(i, RouteFail(Ops(i)))
    /\ UNCHANGED <<rules, built, dom>>

ConcReturn(i) ==
    /\ Ops(i).pc = "run"
    /\ Ops(i).tag = "end"
    /\ Put(i, Finished(Ops(i), "Ok", Ops(i).resp))
    /\ UNCHANGED <<rules, built, dom>>

\* Longest rule list of the shared table
MaxConcRules == 2

ConcRules ==
    { r \in Rules : /\ r.tag \in {"start", "a"}
                    /\ on_match_next(r) \in {"a", "end"}
                    /\ no_match_next(r) \in {"a", "end"} }

ConcLists(n) == [1..n -> ConcRules]

InitConc ==
    /\ \E n \in 0..MaxConcRules : rules \in ConcLists(n)
    /\ built = NotBuilt
    /\ op = Idle
    /\ op2 = Idle
    /\ dom = NoDomain

StartAny == \E i \in 1..2 : ConcStart(i)

StepAny == \E i \in 1..2 : ConcStep(i)

UpstreamOkAny == \E i \in 1..2 : ConcUpstreamOk(i)

UpstreamErrAny == \E i \in 1..2 : ConcUpstreamErr(i)

ReturnAny == \E i \in 1..2 : ConcReturn(i)

NextConc ==
    \/ New
    \/ StartAny
    \/ StepAny
    \/ UpstreamOkAny
    \/ UpstreamErrAny
    \/ ReturnAny

SpecConc == InitConc /\ [][NextConc]_vars

----------------------------------------------------------------------------
(* The rule graph of a rule list, stated without Table::traverse *)

TagSet(rs) == { rs[i].tag : i \in 1..Len(rs) }

UniqueTags(rs) == \A i, j \in 1..Len(rs) : rs[i].tag = rs[j].tag => i = j

RuleOf(rs, t) == rs[CHOOSE i \in 1..Len(rs) : rs[i].tag = t]

\* The next-tags of the rule tagged t that routing follows ("end" stops it)
Succs(rs, t) ==
    IF t \in TagSet(rs)
    THEN {on_match_next(RuleOf(rs, t)), no_match_next(RuleOf(rs, t))} \ {"end"}
    ELSE {}

\* The rules reached from the tags S by following next-tags
RECURSIVE ReachFrom(_, _)
ReachFrom(rs, S) ==
    LET N == S \cup (UNION { Succs(rs, t) : t \in S } \cap TagSet(rs))
    IN IF N = S THEN S ELSE ReachFrom(rs, N)

Reach(rs) == ReachFrom(rs, {"start"} \cap TagSet(rs))

\* Some depth-first path from "start" repeats a tag: a reachable rule lies on a cycle
PathRepeats(rs) ==
    \E t \in Reach(rs) : t \in ReachFrom(rs, Succs(rs, t) \cap TagSet(rs))

\* Next-tags of reachable rules that no rule carries
AbsentNext(rs) == UNION { Succs(rs, t) : t \in Reach(rs) } \ TagSet(rs)

\* Next-tags of any rule that no rule carries
Dangling(rs) == UNION { Succs(rs, t) : t \in TagSet(rs) } \ TagSet(rs)

\* The (rule, branch) pairs among the reachable rules whose next-tag is u
InEdges(rs, u) ==
    { <<t, "on">> : t \in { x \in Reach(rs) : on_match_next(RuleOf(rs, x)) = u } }
    \cup { <<t, "no">> : t \in { x \in Reach(rs) : no_match_next(RuleOf(rs, x)) = u } }

\* Tags a traversal from "start" can arrive at a second time
Revisited(rs) ==
    { u \in Reach(rs) \ {"end"} :
        Cardinality(InEdges(rs, u)) + (IF u = "start" THEN 1 ELSE 0) >= 2 }

Done == built.kind # "None"

----------------------------------------------------------------------------
(* Claims *)

\* C1 (as claimed): every rule set with unique tags, a "start" rule, no next-tag
\* naming an absent tag and no depth-first path from "start" repeating a tag is
\* accepted by Table::new.
C1_AcceptsPathSimple ==
    (Done /\ UniqueTags(rules) /\ "start" \in TagSet(rules)
          /\ Dangling(rules) = {} /\ ~PathRepeats(rules))
        => built.kind = "Ok"

\* C2: when Table::new succeeds, used() is exactly the union of the upstream
\* names declared by the rules reachable from "start".
C2_UsedIsReachableUnion ==
    built.kind = "Ok" =>
        used(built) = UNION { used_upstreams(built.rules[t]) : t \in Reach(rules) }

\* C2 witness: a table whose reachable rules declare a name and whose
\* unreachable rule declares another one, left out of used().
C2_Witness ==
    /\ built.kind = "Ok"
    /\ used(built) # {}
    /\ \E t \in DOMAIN built.rules :
          /\ t \notin Reach(rules)
          /\ used_upstreams(built.rules[t]) \ used(built) # {}

\* C3 (as claimed): whenever two rules of the list carry the same tag, Table::new
\* fails with MultipleDef naming the tag of those two rules.
C3_NamesEveryDuplicate ==
    Done =>
        \A i, j \in 1..Len(rules) :
            (i < j /\ rules[i].tag = rules[j].tag)
                => built = Err("MultipleDef", rules[i].tag)

\* The first rule, in list order, whose tag an earlier rule carries
FirstRepeat(rs) ==
    CHOOSE j \in 1..Len(rs) :
        /\ \E i \in 1..(j - 1) : rs[i].tag = rs[j].tag
        /\ \A k \in 1..(j - 1) : \A i \in 1..(k - 1) : rs[i].tag # rs[k].tag

\* C3 (amended): a list with two rules of the same tag fails with MultipleDef
\* naming the tag of the first rule, in list order, that repeats an earlier tag,
\* whether or not "start" is missing, a next-tag is undefined or the graph is
\* recursive.
C3_MultipleDefFirst ==
    (Done /\ ~UniqueTags(rules))
        => built = Err("MultipleDef", rules[FirstRepeat(rules)].tag)

\* C3 witness: a duplicated tag in a list that has no "start" rule, a next-tag
\* no rule carries and a rule that names itself.
C3_Witness ==
    /\ built.kind = "MultipleDef"
    /\ "start" \notin TagSet(rules)
    /\ Dangling(rules) # {}
    /\ \E i \in 1..Len(rules) : on_match_next(rules[i]) = rules[i].tag

\* C4 (as claimed): every rule set in which a next-tag reached from "start"
\* equals an ancestor on its path fails with RuleRecursion naming a revisited tag.
C4_CycleIsRecursion ==
    (Done /\ UniqueTags(rules) /\ PathRepeats(rules))
        => (built.kind = "RuleRecursion" /\ built.tag \in Revisited(rules))

\* C4 (amended): such a rule set is rejected, with RuleRecursion naming a tag the
\* traversal arrives at a second time, or, when a reachable rule names an absent
\* tag, possibly with UndefinedTag naming such an absent tag; it is RuleRecursion
\* whenever every next-tag of the reachable rules is present.
C4_CycleRejected ==
    (Done /\ UniqueTags(rules) /\ PathRepeats(rules))
        => /\ built.kind \in {"RuleRecursion", "UndefinedTag"}
           /\ built.kind = "RuleRecursion" => built.tag \in Revisited(rules)
           /\ built.kind = "UndefinedTag" => built.tag \in AbsentNext(rules)
           /\ AbsentNext(rules) = {} => built.kind = "RuleRecursion"

\* C4 witness: "start" is named again by a rule it reaches, not by itself.
C4_Witness ==
    /\ built = Err("RuleRecursion", "start")
    /\ UniqueTags(rules)
    /\ "start" \notin Succs(rules, "start")
    /\ \E t \in Reach(rules) \ {"start"} : "start" \in Succs(rules, t)

\* C5 (as claimed): every rule set in which some rule's next-tag (other than
\* "end") is absent fails with UndefinedTag naming such a tag (stated here for
\* the rule sets that have a "start" rule).
C5_DanglingIsUndefined ==
    (Done /\ UniqueTags(rules) /\ "start" \in TagSet(rules) /\ Dangling(rules) # {})
        => (built.kind = "UndefinedTag" /\ built.tag \in Dangling(rules))

\* C5 (amended): a rule set in which a rule reachable from "start" has an absent
\* next-tag is rejected, with UndefinedTag naming such an absent tag or, when
\* the traversal arrives at some tag a second time, possibly with RuleRecursion
\* naming that tag; it is UndefinedTag whenever no tag can be reached twice.
C5_ReachableDanglingRejected ==
    (Done /\ UniqueTags(rules) /\ AbsentNext(rules) # {})
        => /\ built.kind \in {"UndefinedTag", "RuleRecursion"}
           /\ built.kind = "UndefinedTag" => built.tag \in AbsentNext(rules)
           /\ built.kind = "RuleRecursion" => built.tag \in Revisited(rules)
           /\ Revisited(rules) = {} => built.kind = "UndefinedTag"

\* C5 witness: the absent tag is named by a rule other than "start".
C5_Witness ==
    /\ built.kind = "UndefinedTag"
    /\ built.tag # "start"
    /\ built.tag \notin Succs(rules, "start")
    /\ \E t \in Reach(rules) : built.tag \in Succs(rules, t)

\* C6: a rule graph (unique tags, a "start" rule, every next-tag of a reachable
\* rule present) without a cycle in which some tag is the next-tag of two
\* branches is rejected with RuleRecursion naming a tag reached a second time.
C6_DiamondRejected ==
    (Done /\ UniqueTags(rules) /\ "start" \in TagSet(rules)
          /\ AbsentNext(rules) = {} /\ ~PathRepeats(rules)
          /\ Revisited(rules) # {})
        => (built.kind = "RuleRecursion" /\ built.tag \in Revisited(rules))

\* C6 witness: an acyclic convergent graph rejected as a recursion.
C6_Witness ==
    /\ built.kind = "RuleRecursion"
    /\ UniqueTags(rules)
    /\ AbsentNext(rules) = {}
    /\ ~PathRepeats(rules)
    /\ Cardinality(InEdges(rules, built.tag)) = 2

\* The rule of the tests of table.rs, and the same rule with no-match to "end"
TestRule == Rule("start", "Any", <<Query("mock"), "end">>, <<Skip, "start">>)

TestRuleEnd == Rule("start", "Any", <<Query("mock"), "end">>, <<Skip, "end">>)

\* C7 (as claimed): the table of the single rule ("start", Any, (Query mock,
\* "end"), (Skip, "start")) can be built.
C7_TestRuleBuilds ==
    (Done /\ rules = <<TestRule>>) => built.kind = "Ok"

\* C7 (amended): that table is rejected with RuleRecursion("start"); with the
\* no-match next-tag "end" it is built, and routing a query that has a question
\* evaluates the one rule, sends once to "mock" and ends with what "mock"
\* returned: its response, or its error as an ActionError.
C7_OneStepRoute ==
    /\ (Done /\ rules = <<TestRule>>) => built = Err("RuleRecursion", "start")
    /\ (Done /\ rules = <<TestRuleEnd>>) => built.kind = "Ok"
    /\ (rules = <<TestRuleEnd>> /\ op.pc \in {"run", "await"})
          => Len(op.path) <= 1
    /\ (rules = <<TestRuleEnd>> /\ op.pc = "done" /\ op.query # <<>>)
          => /\ op.path = <<"start">>
             /\ op.sent = <<(<<"mock", "start">>)>>
             /\ Len(op.replies) = 1
             /\ op.result = IF op.replies[1] = UpErr
                            THEN [kind |-> "ActionError", resp |-> NoMsg]
                            ELSE [kind |-> "Ok", resp |-> op.replies[1]]

\* C7 witness: the one-rule table routed a query to the answer of "mock".
C7_Witness ==
    /\ rules = <<TestRuleEnd>>
    /\ op.pc = "done"
    /\ op.result = [kind |-> "Ok", resp |-> "r2"]

\* C8: a table whose "start" rule has on-match next-tag "end" and no-match
\* next-tag "start" is rejected with RuleRecursion("start"), whatever its matcher,
\* its actions and the other rules are.
C8_SelfReferenceRejected ==
    (Done /\ UniqueTags(rules)
          /\ \E i \in 1..Len(rules) :
                /\ rules[i].tag = "start"
                /\ on_match_next(rules[i]) = "end"
                /\ no_match_next(rules[i]) = "start")
        => built = Err("RuleRecursion", "start")

\* C8 witness: the self-reference sits on the no-match branch of an Any matcher,
\* which routing would never take.
C8_Witness ==
    /\ built = Err("RuleRecursion", "start")
    /\ Len(rules) = 2
    /\ \E i \in 1..Len(rules) :
          /\ rules[i].tag = "start"
          /\ rules[i].matcher = "Any"
          /\ on_match_next(rules[i]) = "end"
          /\ no_match_next(rules[i]) = "start"

\* C9: every tag route looks up in a table returned by Table::new is a key of its
\* rule map: the lookup never fails.
C9_LookupNeverFails ==
    built.kind = "Ok" =>
        /\ op.result.kind # "PanicNoRule"
        /\ \A i \in 1..Len(op.path) : op.path[i] \in DOMAIN built.rules
        /\ (op.pc = "run" /\ op.tag # "end") => op.tag \in DOMAIN built.rules

\* C9 witness: a route that looked up "start" and then a second rule.
C9_Witness ==
    /\ op.pc = "done"
    /\ op.result.kind = "Ok"
    /\ Len(op.path) = 2
    /\ op.path[2] # "start"

\* C10: an ActionError ends the routing operation at once with that error: it is
\* the last thing the operation received, no rule is evaluated and no upstream
\* contacted after the failed action, and no response is returned.
C10_ActionErrorAborts ==
    \A i \in 1..Len(op.replies) :
        op.replies[i] = UpErr =>
            /\ i = Len(op.replies)
            /\ op.pc = "done"
            /\ op.result = [kind |-> "ActionError", resp |-> NoMsg]
            /\ Len(op.sent) = i
            /\ op.path[Len(op.path)] = op.sent[i][2]

\* C10 witness: the second Query action failed after the first one had stored
\* a response.
C10_Witness ==
    /\ op.pc = "done"
    /\ op.result.kind = "ActionError"
    /\ Len(op.replies) = 2
    /\ op.resp \in Replies

\* A lone routing operation run on until it waits for an upstream or ends
RECURSIVE Settle(_, _)
Settle(table, o) ==
    IF o.pc # "run" THEN o
    ELSE IF o.tag = "end" THEN Finished(o, "Ok", o.resp)
    ELSE Settle(table, RouteIter(table, o))

\* The lone routing operation of query q after the replies reps[1..n]
RECURSIVE Replay(_, _, _, _)
Replay(table, q, reps, n) ==
    IF n = 0 THEN Settle(table, RouteEnter(q))
    ELSE LET o == Replay(table, q, reps, n - 1)
         IN IF reps[n] = UpErr THEN RouteFail(o)
            ELSE Settle(table, RouteResume(o, reps[n]))

\* Operation i is where a lone operation with its query and its replies is
Alone(i) ==
    Ops(i).pc # "idle" =>
        Settle(built.rules, Ops(i))
            = Replay(built.rules, Ops(i).query, Ops(i).replies, Len(Ops(i).replies))

\* C11: routing operations interleaved on one table never change the table, and
\* the tags each visits and its result are those of a lone operation with the
\* same query and the same upstream replies, also when the other one fails.
C11_OperationsIsolated ==
    /\ [](Alone(1) /\ Alone(2))
    /\ [][built.kind = "Ok" => (built' = built /\ rules' = rules)]_vars

\* C11 witness: with the same query, one operation ended with an ActionError
\* while the other went on to the answer of its own upstream call.
C11_Witness ==
    /\ op.pc = "done" /\ op.result.kind = "ActionError"
    /\ op2.pc = "done" /\ op2.result = [kind |-> "Ok", resp |-> "r2"]
    /\ op.query = op2.query
    /\ Len(op2.path) = 2

\* The list rs in the order p
Reordered(rs, p) == [i \in 1..Len(rs) |-> rs[p[i]]]

\* C12: the order of the rule list does not change the result of Table::new: a
\* list without duplicate tags gives the same table and used set, or the same
\* error naming the same tag, in every order; a list with duplicate tags fails
\* with MultipleDef in every order.
C12_OrderIndependent ==
    Done =>
        \A p \in Permutations(1..Len(rules)) :
            IF UniqueTags(rules)
            THEN TableNew(Reordered(rules, p)) = built
            ELSE /\ built.kind = "MultipleDef"
                 /\ TableNew(Reordered(rules, p)).kind = "MultipleDef"

\* C12 witness: an accepted list of three rules whose "start" rule comes last.
C12_Witness ==
    /\ built.kind = "Ok"
    /\ Len(rules) = 3
    /\ rules[3].tag = "start"
    /\ Cardinality(Reach(rules)) = 3

\* C13 (as claimed): "end" is never a key of the rule map of a table returned by
\* Table::new, whatever the rule list is.
C13_EndNeverKey ==
    built.kind = "Ok" => "end" \notin DOMAIN built.rules

\* A pattern that is not domain text: a blank inside it, or an empty label
Malformed(line) ==
    \/ \E i \in 1..Len(line) : line[i] = " "
    \/ \E i \in 1..Len(SplitBy(line, ".")) : SplitBy(line, ".")[i] = <<>>

BadSource(src) ==
    src.kind = "text" /\ \E l \in Patterns(src.text) : Malformed(l)

\* C14 (as claimed): Domain::new fails with IOError when a source cannot be read
\* and with Malformatted when the content of a source is not domain text.
C14_MalformedFails ==
    dom.pc = "built" =>
        LET unread == \E i \in 1..Len(dom.srcs) : dom.srcs[i].kind # "text"
            bad    == \E i \in 1..Len(dom.srcs) : BadSource(dom.srcs[i])
        IN /\ (unread /\ ~bad) => dom.result = <<"IOError">>
           /\ (bad /\ ~unread) => dom.result = <<"Malformatted">>
           /\ (bad /\ unread) => dom.result[1] \in {"IOError", "Malformatted"}

\* The patterns inserted by the sources of the matcher
Inserted(srcs) == UNION { Patterns(srcs[i].text) : i \in 1..Len(srcs) }

\* The name as written, without a root dot, in lower case
Canon(n) ==
    Lower(IF n # <<>> /\ n[Len(n)] = "." THEN SubSeq(n, 1, Len(n) - 1) ELSE n)

\* d equals n, or d is a suffix of n that starts right after a dot
Covers(d, n) ==
    \/ n = d
    \/ /\ Len(n) > Len(d)
       /\ SubSeq(n, Len(n) - Len(d) + 1, Len(n)) = d
       /\ n[Len(n) - Len(d)] = "."

Written(name) == Canon(to_utf8(name))

\* The verdict on a name when the matcher was built from the one source src
Verdict(src, text) ==
    (dom.pc = "matched" /\ dom.srcs = <<src>> /\ Written(dom.probe[1][1]) = text)
        => dom.probe[2]

Refused(src, text) ==
    (dom.pc = "matched" /\ dom.srcs = <<src>> /\ Written(dom.probe[1][1]) = text)
        => ~dom.probe[2]

\* C15: the Domain matcher matches the name of the first question exactly when
\* an inserted domain equals it or is a suffix of it at a label boundary; with
\* "e.c" inserted, "e.c", "w.e.c" and "a.b.e.c" match and "ne.c" and "e.o" do
\* not; with only "a.e.c" inserted, "e.c" does not match.
C15_SuffixAtLabelBoundary ==
    /\ dom.pc = "matched" =>
          (dom.probe[2] <=> \E d \in Inserted(dom.srcs) :
                                Covers(d, Written(dom.probe[1][1])))
    /\ Verdict(TextEC, <<"e", ".", "c">>)
    /\ Verdict(TextEC, <<"w", ".", "e", ".", "c">>)
    /\ Verdict(TextEC, <<"a", ".", "b", ".", "e", ".", "c">>)
    /\ Refused(TextEC, <<"n", "e", ".", "c">>)
    /\ Refused(TextEC, <<"e", ".", "o">>)
    /\ Refused(TextAEC, <<"e", ".", "c">>)

\* A query of two questions whose first name is not covered and whose second
\* is, refused
C15_Witness ==
    /\ dom.pc = "matched"
    /\ dom.srcs = <<TextEC>>
    /\ Len(dom.probe[1]) = 2
    /\ Written(dom.probe[1][1]) = <<"n", "e", ".", "c">>
    /\ dom.probe[2] = FALSE

\* C16: a successful route returns the response of the last Query action
\* executed on its path, an earlier response being overwritten; with no Query
\* action on the path it returns the empty message the State started with.
C16_ReturnsLastResponse ==
    (op.pc = "done" /\ op.result.kind = "Ok") =>
        /\ Len(op.replies) = Len(op.sent)
        /\ op.result.resp = IF op.sent = <<>> THEN EmptyMsg
                            ELSE op.replies[Len(op.replies)]

\* C16 witness: two Query actions answered differently, the route returned
C16_Witness ==
    /\ op.pc = "done"
    /\ op.result.kind = "Ok"
    /\ Len(op.replies) = 2
    /\ op.replies[1] # op.replies[2]

\* C17: every upstream name a routing operation on a built table dispatches a
\* query to is an element of used().
C17_DispatchWithinUsed ==
    built.kind = "Ok" =>
        \A i \in 1..Len(op.sent) : op.sent[i][1] \in used(built)

\* C17 witness: a route that dispatched to two upstreams of a table
C17_Witness ==
    /\ built.kind = "Ok"
    /\ Len(op.sent) = 2
    /\ op.sent[1][1] # op.sent[2][1]
    /\ used(built) = {op.sent[1][1], op.sent[2][1]}

\* C18: a rule list with unique tags and no rule tagged "start", the empty list
\* included, makes Table::new fail with UndefinedTag("start") whatever the
\* other rules are.
C18_NoStartUndefined ==
    (Done /\ UniqueTags(rules) /\ "start" \notin TagSet(rules))
        => built = Err("UndefinedTag", "start")

\* C18 witness: two rules, neither tagged "start", one of them recursive
C18_Witness ==
    /\ built = Err("UndefinedTag", "start")
    /\ Len(rules) = 2
    /\ UniqueTags(rules)
    /\ \E i \in 1..2 : on_match_next(rules[i]) = rules[i].tag

\* C20: after Table::new succeeds the rules reachable from "start" form a tree
\* rooted at "start": no reachable rule has "start" as a next-tag, every other
\* reachable tag is the next-tag of exactly one (rule, branch) pair among the
\* reachable rules, and no reachable rule has both next-tags equal unless they
\* are "end".
C20_ReachableIsTree ==
    built.kind = "Ok" =>
        /\ InEdges(rules, "start") = {}
        /\ \A u \in Reach(rules) \ {"start"} : Cardinality(InEdges(rules, u)) = 1
        /\ \A t \in Reach(rules) :
              on_match_next(RuleOf(rules, t)) = no_match_next(RuleOf(rules, t))
                  => on_match_next(RuleOf(rules, t)) = "end"

\* C20 witness: a built table of two reachable rules
C20_Witness ==
    /\ built.kind = "Ok"
    /\ Cardinality(Reach(rules)) = 2

NoRepeat(seq) == \A i, j \in 1..Len(seq) : seq[i] = seq[j] => i = j

\* The steps and sends of the operation stay within the number of rules: no
\* rule evaluated twice, one send per Query action executed, none repeated
WithinRules ==
    /\ NoRepeat(op.path)
    /\ Len(op.path) <= Cardinality(DOMAIN built.rules)
    /\ Len(op.sent) <= Len(op.path)
    /\ NoRepeat([i \in 1..Len(op.sent) |-> op.sent[i][2]])
    /\ \A i \in 1..Len(op.sent) : \E j \in 1..Len(op.path) : op.path[j] = op.sent[i][2]
    /\ Len(op.sent) = Len(op.replies) + (IF op.pc = "await" THEN 1 ELSE 0)
    /\ (op.pc = "run" /\ op.tag # "end")
          => Len(op.path) < Cardinality(DOMAIN built.rules)

\* C19 (as claimed): for every built table and every query, route evaluates
\* each rule at most once and ends, at "end" or with an error, after at most
\* |rules| steps and at most |rules| sends.
C19_EveryQueryEnds ==
    built.kind = "Ok" =>
        /\ WithinRules
        /\ op.pc = "done" => op.result.kind \in {"Ok", "ActionError"}

\* C19 (amended): a started route always ends when its upstream calls return,
\* within |rules| steps and sends, at "end" or with the error of an action when
\* the query has a question, and by the panic of the unwrap before any step
\* when it has none.
C19_RouteTerminates ==
    /\ [](built.kind = "Ok" =>
            /\ WithinRules
            /\ op.pc = "done" =>
                  IF op.query = <<>>
                  THEN op.result.kind = "PanicNoQuestion"
                       /\ op.path = <<>> /\ op.sent = <<>>
                  ELSE op.result.kind \in {"Ok", "ActionError"})
    /\ (op.pc \in {"run", "await"}) ~> (op.pc = "done")

\* C19 witness: a route over every rule of a two-rule table, one send per rule
C19_Witness ==
    /\ op.pc = "done"
    /\ op.result.kind = "Ok"
    /\ Len(op.path) = 2
    /\ Len(op.sent) = 2
    /\ Cardinality(DOMAIN built.rules) = 2

====
